---- MODULE Spec2Model ----
(***************************************************************************)
(* Model of the contact / quote-request blueprint of the Ironforge Welding *)
(* website (src/routes/contact.py): the form validator                     *)
(* validate_contact_form, the notification dispatcher send_quote_email and *)
(* the two request handlers contact (GET) and contact_submit (POST).       *)
(*                                                                         *)
(* A text (a Python str) is a sequence of fragments.  Text typed by the    *)
(* user is a sequence of one-character fragments; a string literal of the  *)
(* program is one fragment holding the literal.  Concatenation is \o.      *)
(***************************************************************************)
EXTENDS Integers, Sequences, FiniteSets, TLC

VARIABLES
    config,       \* current_app.config: MAIL_ENABLED, QUOTE_RECIPIENT_EMAIL
    catalogs,     \* the module globals VALID_SERVICE_TYPES and SERVICE_LABELS
    pc,           \* position of the one request handled: "idle" or "done"
    request,      \* the request: its method and request.form
    is_valid,     \* contact_submit's local is_valid
    errors,       \* contact_submit's local errors
    log,          \* records emitted to the module logger, in order
    flashes,      \* flash() calls, in order
    dispatched,   \* argument tuples of the calls of send_quote_email
    outbox,       \* Message objects handed to mail.send, in order
    send_result,  \* outcome of mail.send: "not called", "ok" or the exception
    raised,       \* the exception send_quote_email let escape, or "none"
    response      \* what the handler returned

vars == <<config, catalogs, pc, request, is_valid, errors, log, flashes, dispatched,
          outbox, send_result, raised, response>>

----------------------------------------------------------------------------
(* Bounds of the explored inputs.                                          *)

\* Longest email typed over EmailAlphabet.
MaxEmailLen == 2

\* Most blanks put on each side of a service slug.
MaxPad == 1

----------------------------------------------------------------------------
(* Texts.                                                                  *)

Lit(s) == <<s>>

\* Characters str.strip() removes.
Whitespace == {" ", "\t", "\n", "\r"}

RECURSIVE lstrip(_)
lstrip(s) ==
    IF s = <<>> THEN s
    ELSE IF Head(s) \in Whitespace THEN lstrip(Tail(s)) ELSE s

RECURSIVE rstrip(_)
rstrip(s) ==
    IF s = <<>> THEN s
    ELSE IF s[Len(s)] \in Whitespace THEN rstrip(SubSeq(s, 1, Len(s) - 1)) ELSE s

\* str.strip(): drop leading and trailing whitespace.
strip(s) == rstrip(lstrip(s))

\* `c in s` for a one-character c.
char_in(c, s) == \E i \in DOMAIN s : s[i] = c

\* form_data.get(key, default)
get(form_data, key, default) ==
    IF key \in DOMAIN form_data THEN form_data[key] ELSE default

\* `value or default` on a str: the empty string is falsy.
or_default(value, default) == IF value = <<>> THEN default ELSE value

\* template % args, the template's "%s" fragments taking the args in order.
RECURSIVE Format(_, _)
Format(template, args) ==
    IF template = <<>> THEN <<>>
    ELSE IF Head(template) = "%s"
         THEN Head(args) \o Format(Tail(template), Tail(args))
         ELSE <<Head(template)>> \o Format(Tail(template), args)

\* "\n".join(lines)
RECURSIVE join_lines(_)
join_lines(lines) ==
    IF lines = <<>> THEN <<>>
    ELSE IF Len(lines) = 1 THEN Head(lines)
    ELSE Head(lines) \o <<"\n">> \o join_lines(Tail(lines))

----------------------------------------------------------------------------
(* Module-level catalogs.                                                  *)

VALID_SERVICE_TYPES ==
    { <<"m", "i", "g">>,
      <<"t", "i", "g">>,
      <<"s", "t", "i", "c", "k">>,
      <<"f", "a", "b", "r", "i", "c", "a", "t", "i", "o", "n">>,
      <<"r", "e", "p", "a", "i", "r">>,
      <<"m", "o", "b", "i", "l", "e">>,
      <<"o", "t", "h", "e", "r">> }

SERVICE_LABELS ==
    (<<"m", "i", "g">> :> Lit("MIG Welding")) @@
    (<<"t", "i", "g">> :> Lit("TIG Welding")) @@
    (<<"s", "t", "i", "c", "k">> :> Lit("Stick Welding")) @@
    (<<"f", "a", "b", "r", "i", "c", "a", "t", "i", "o", "n">> :> Lit("Custom Fabrication")) @@
    (<<"r", "e", "p", "a", "i", "r">> :> Lit("Welding Repair")) @@
    (<<"m", "o", "b", "i", "l", "e">> :> Lit("Mobile Welding")) @@
    (<<"o", "t", "h", "e", "r">> :> Lit("Other / Not Sure"))

\* The validator's messages.
NameRequired == Lit("Name is required.")
EmailRequired == Lit("Email is required.")
EmailInvalid == Lit("Please enter a valid email address.")
ServiceInvalid == Lit("Invalid service type selected.")
MessageRequired == Lit("Please include a brief description of your project.")

----------------------------------------------------------------------------
(* validate_contact_form                                                   *)

name_errors(form_data) ==
    LET name == strip(get(form_data, "name", <<>>))
    IN  IF name = <<>> THEN <<NameRequired>> ELSE <<>>

\* email_errors with `and` for `or`: one of "@" and "." is enough.
email_errors_and(form_data) ==
    LET email == strip(get(form_data, "email", <<>>))
    IN  IF email = <<>> THEN <<EmailRequired>>
        ELSE IF ~char_in("@", email) /\ ~char_in(".", email)
             THEN <<EmailInvalid>>
             ELSE <<>>

email_errors(form_data) ==
    LET email == strip(get(form_data, "email", <<>>))
    IN  IF email = <<>> THEN <<EmailRequired>>
        ELSE IF ~char_in("@", email) \/ ~char_in(".", email)
             THEN <<EmailInvalid>>
             ELSE <<>>

\* service_type_errors without the `service_type and` guard.
service_type_errors_unguarded(form_data) ==
    LET service_type == strip(get(form_data, "service_type", <<>>))
    IN  IF service_type \notin catalogs.VALID_SERVICE_TYPES
        THEN <<ServiceInvalid>>
        ELSE <<>>

service_type_errors(form_data) ==
    LET service_type == strip(get(form_data, "service_type", <<>>))
    IN  IF service_type # <<>> /\ service_type \notin catalogs.VALID_SERVICE_TYPES
        THEN <<ServiceInvalid>>
        ELSE <<>>

\* message_errors testing the raw value: a blank message passes.
message_errors_unstripped(form_data) ==
    LET message == get(form_data, "message", <<>>)
    IN  IF message = <<>> THEN <<MessageRequired>> ELSE <<>>

message_errors(form_data) ==
    LET message == strip(get(form_data, "message", <<>>))
    IN  IF message = <<>> THEN <<MessageRequired>> ELSE <<>>

\* validate_contact_form returning at the first rule that fails.
validate_contact_form_first_only(form_data) ==
    LET errs == IF name_errors(form_data) # <<>> THEN name_errors(form_data)
                ELSE IF email_errors(form_data) # <<>> THEN email_errors(form_data)
                ELSE IF service_type_errors(form_data) # <<>>
                     THEN service_type_errors(form_data)
                     ELSE message_errors(form_data)
    IN  <<Len(errs) = 0, errs>>

\* validate_contact_form checking the message before the service type.
validate_contact_form_reordered(form_data) ==
    LET errs == name_errors(form_data) \o email_errors(form_data)
                \o message_errors(form_data) \o service_type_errors(form_data)
    IN  <<Len(errs) = 0, errs>>

\* Returns the tuple (is_valid, errors).
validate_contact_form(form_data) ==
    LET errs == name_errors(form_data) \o email_errors(form_data)
                \o service_type_errors(form_data) \o message_errors(form_data)
    IN  <<Len(errs) = 0, errs>>

----------------------------------------------------------------------------
(* Logging and the mail transport.                                         *)

\* A record of the module logger. exc_info is "none" or the exception whose
\* traceback logger.exception attaches.
LogRecord(level, msg, args, exc_info) ==
    [level |-> level, msg |-> msg, args |-> args, exc_info |-> exc_info]

info(msg, args) == LogRecord("INFO", msg, args, "none")
warning(msg, args) == LogRecord("WARNING", msg, args, "none")
exception(msg, args, exc) == LogRecord("ERROR", msg, args, exc)

\* What mail.send may do: deliver, or raise some subclass of Exception.
SendOutcomes == {"ok", "SMTPException", "ConnectionRefusedError"}

\* flask_mail.Message(subject=, recipients=, body=, reply_to=)
Message(subject, recipients, body, reply_to) ==
    [subject |-> subject, recipients |-> recipients, body |-> body,
     reply_to |-> reply_to]

----------------------------------------------------------------------------
(* send_quote_email                                                        *)

\* service_label with .get(service_type): None, printed "None", for a slug
\* the catalog lacks.
service_label_none(service_type) ==
    IF service_type \in DOMAIN catalogs.SERVICE_LABELS
    THEN catalogs.SERVICE_LABELS[service_type]
    ELSE Lit("None")

\* SERVICE_LABELS.get(service_type, service_type)
service_label(service_type) ==
    IF service_type \in DOMAIN catalogs.SERVICE_LABELS
    THEN catalogs.SERVICE_LABELS[service_type]
    ELSE service_type

\* body_text printing the slug where the label belongs.
body_text_raw_slug(name, email, phone, service_type, message_body) ==
    join_lines(<<
        Lit("New quote request from the Ironforge Welding website."),
        <<>>,
        Lit("--- Customer Details ---"),
        Format(<<"Name:    ", "%s">>, <<name>>),
        Format(<<"Email:   ", "%s">>, <<email>>),
        Format(<<"Phone:   ", "%s">>, <<phone>>),
        Format(<<"Service: ", "%s">>, <<service_type>>),
        <<>>,
        Lit("--- Project Description ---"),
        message_body,
        <<>>,
        Lit("---"),
        Lit("Reply directly to this email to respond to the customer.")
    >>)

body_text(name, email, phone, service_type, message_body) ==
    join_lines(<<
        Lit("New quote request from the Ironforge Welding website."),
        <<>>,
        Lit("--- Customer Details ---"),
        Format(<<"Name:    ", "%s">>, <<name>>),
        Format(<<"Email:   ", "%s">>, <<email>>),
        Format(<<"Phone:   ", "%s">>, <<phone>>),
        Format(<<"Service: ", "%s">>, <<service_label(service_type)>>),
        <<>>,
        Lit("--- Project Description ---"),
        message_body,
        <<>>,
        Lit("---"),
        Lit("Reply directly to this email to respond to the customer.")
    >>)

\* The branch taken when MAIL_ENABLED is false.
mail_disabled(body) ==
    [log    |-> <<info(<<"MAIL_ENABLED is false - email NOT sent.  Contents:\n", "%s">>,
                       <<body>>)>>,
     outbox |-> <<>>,
     send   |-> "not called",
     raised |-> "none"]

\* try_send catching SMTPException only: any other exception escapes.
try_send_narrow(msg, recipient, email, outcome) ==
    IF outcome = "ok"
    THEN [log    |-> <<info(<<"Quote notification email sent to ", "%s",
                              " for customer ", "%s", ".">>,
                            <<recipient, email>>)>>,
          outbox |-> <<msg>>,
          send   |-> outcome,
          raised |-> "none"]
    ELSE IF outcome = "SMTPException"
    THEN [log    |-> <<exception(<<"Failed to send quote notification email for customer ",
                                   "%s", ".">>,
                                 <<email>>, outcome)>>,
          outbox |-> <<msg>>,
          send   |-> outcome,
          raised |-> "none"]
    ELSE [log    |-> <<>>,
          outbox |-> <<msg>>,
          send   |-> outcome,
          raised |-> outcome]

\* try_send raising again after it logged the failure.
try_send_reraise(msg, recipient, email, outcome) ==
    IF outcome = "ok"
    THEN [log    |-> <<info(<<"Quote notification email sent to ", "%s",
                              " for customer ", "%s", ".">>,
                            <<recipient, email>>)>>,
          outbox |-> <<msg>>,
          send   |-> outcome,
          raised |-> "none"]
    ELSE [log    |-> <<exception(<<"Failed to send quote notification email for customer ",
                                   "%s", ".">>,
                                 <<email>>, outcome)>>,
          outbox |-> <<msg>>,
          send   |-> outcome,
          raised |-> outcome]

\* try_send sending a second time when the first send raised.
try_send_retry(msg, recipient, email, outcome) ==
    IF outcome = "ok"
    THEN [log    |-> <<info(<<"Quote notification email sent to ", "%s",
                              " for customer ", "%s", ".">>,
                            <<recipient, email>>)>>,
          outbox |-> <<msg>>,
          send   |-> outcome,
          raised |-> "none"]
    ELSE [log    |-> <<exception(<<"Failed to send quote notification email for customer ",
                                   "%s", ".">>,
                                 <<email>>, outcome)>>,
          outbox |-> <<msg, msg>>,
          send   |-> outcome,
          raised |-> "none"]

\* The try / except around mail.send(msg); outcome is what mail.send does.
try_send(msg, recipient, email, outcome) ==
    IF outcome = "ok"
    THEN [log    |-> <<info(<<"Quote notification email sent to ", "%s",
                              " for customer ", "%s", ".">>,
                            <<recipient, email>>)>>,
          outbox |-> <<msg>>,
          send   |-> outcome,
          raised |-> "none"]
    ELSE [log    |-> <<exception(<<"Failed to send quote notification email for customer ",
                                   "%s", ".">>,
                                 <<email>>, outcome)>>,
          outbox |-> <<msg>>,
          send   |-> outcome,
          raised |-> "none"]

\* send_quote_email without the MAIL_ENABLED test: it always sends.
send_quote_email_always_sends(name, email, phone, service_type, message_body, outcome) ==
    LET body == body_text(name, email, phone, service_type, message_body)
        recipient == config.QUOTE_RECIPIENT_EMAIL
        subject == Format(<<"New Quote Request from ", "%s">>, <<name>>)
        msg == Message(subject, <<recipient>>, body, email)
    IN  try_send(msg, recipient, email, outcome)

\* send_quote_email with recipient and customer swapped in the Message.
send_quote_email_swapped(name, email, phone, service_type, message_body, outcome) ==
    LET body == body_text(name, email, phone, service_type, message_body)
    IN  IF ~config.MAIL_ENABLED
        THEN mail_disabled(body)
        ELSE LET recipient == config.QUOTE_RECIPIENT_EMAIL
                 subject == Format(<<"New Quote Request from ", "%s">>, <<name>>)
                 msg == Message(subject, <<email>>, body, recipient)
             IN  try_send(msg, recipient, email, outcome)

\* Returns what the call did: the records it logged, the messages it handed
\* to mail.send, mail.send's outcome and the exception it let escape.
send_quote_email(name, email, phone, service_type, message_body, outcome) ==
    LET body == body_text(name, email, phone, service_type, message_body)
    IN  IF ~config.MAIL_ENABLED
        THEN mail_disabled(body)
        ELSE LET recipient == config.QUOTE_RECIPIENT_EMAIL
                 subject == Format(<<"New Quote Request from ", "%s">>, <<name>>)
                 msg == Message(subject, <<recipient>>, body, email)
             IN  try_send(msg, recipient, email, outcome)

----------------------------------------------------------------------------
(* The request handlers.                                                   *)

EmptyForm == [f \in {} |-> <<>>]

render_template(template, form_data, status) ==
    [kind |-> "render", template |-> template, form_data |-> form_data,
     status |-> status]

redirect(endpoint) == [kind |-> "redirect", endpoint |-> endpoint, status |-> 302]

\* Flask's answer to an exception a view lets escape.
internal_server_error == [kind |-> "error", template |-> "errors/500.html", status |-> 500]

flash(message, category) == [message |-> message, category |-> category]

\* The loop over the validation errors: one warning and one flash each.
RECURSIVE log_errors(_)
log_errors(errs) ==
    IF errs = <<>> THEN <<>>
    ELSE <<warning(<<"Form validation error: ", "%s">>, <<Head(errs)>>)>>
         \o log_errors(Tail(errs))

RECURSIVE flash_errors(_)
flash_errors(errs) ==
    IF errs = <<>> THEN <<>>
    ELSE <<flash(Head(errs), "error")>> \o flash_errors(Tail(errs))

\* validation_failed rendering the form empty, as the GET handler does.
validation_failed_blank_form(form_data, errs) ==
    [log        |-> log_errors(errs),
     flashes    |-> flash_errors(errs),
     dispatched |-> <<>>,
     outbox     |-> <<>>,
     send       |-> "not called",
     raised     |-> "none",
     response   |-> render_template("contact.html", EmptyForm, 400)]

\* contact_submit when validation failed.
validation_failed(form_data, errs) ==
    [log        |-> log_errors(errs),
     flashes    |-> flash_errors(errs),
     dispatched |-> <<>>,
     outbox     |-> <<>>,
     send       |-> "not called",
     raised     |-> "none",
     response   |-> render_template("contact.html", form_data, 400)]

success_flash(name) ==
    flash(Lit("Thanks, ") \o name
          \o Lit("! Your quote request has been received. We'll be in touch within 24 hours."),
          "success")

\* validation_passed with the phone default as .get's default: it is used
\* for an absent phone only, not for an empty one.
validation_passed_get_default(form_data, outcome) ==
    LET name == strip(get(form_data, "name", <<>>))
        email == strip(get(form_data, "email", <<>>))
        service_type == or_default(strip(get(form_data, "service_type", <<>>)),
                                   Lit("not specified"))
        phone == strip(get(form_data, "phone", Lit("not provided")))
        message_body == strip(get(form_data, "message", <<>>))
        received == info(<<"Quote request received - Name: ", "%s", " | Email: ", "%s",
                           " | Service: ", "%s", " | Phone: ", "%s">>,
                         <<name, email, service_type, phone>>)
        sent == send_quote_email(name, email, phone, service_type, message_body, outcome)
    IN  [log        |-> <<received>> \o sent.log,
         flashes    |-> IF sent.raised = "none" THEN <<success_flash(name)>> ELSE <<>>,
         dispatched |-> <<<<name, email, phone, service_type, message_body>>>>,
         outbox     |-> sent.outbox,
         send       |-> sent.send,
         raised     |-> sent.raised,
         response   |-> IF sent.raised = "none"
                        THEN redirect("contact.contact")
                        ELSE internal_server_error]

\* contact_submit when validation passed.
validation_passed(form_data, outcome) ==
    LET name == strip(get(form_data, "name", <<>>))
        email == strip(get(form_data, "email", <<>>))
        service_type == or_default(strip(get(form_data, "service_type", <<>>)),
                                   Lit("not specified"))
        phone == or_default(strip(get(form_data, "phone", <<>>)),
                            Lit("not provided"))
        message_body == strip(get(form_data, "message", <<>>))
        received == info(<<"Quote request received - Name: ", "%s", " | Email: ", "%s",
                           " | Service: ", "%s", " | Phone: ", "%s">>,
                         <<name, email, service_type, phone>>)
        sent == send_quote_email(name, email, phone, service_type, message_body, outcome)
    IN  [log        |-> <<received>> \o sent.log,
         flashes    |-> IF sent.raised = "none" THEN <<success_flash(name)>> ELSE <<>>,
         dispatched |-> <<<<name, email, phone, service_type, message_body>>>>,
         outbox     |-> sent.outbox,
         send       |-> sent.send,
         raised     |-> sent.raised,
         response   |-> IF sent.raised = "none"
                        THEN redirect("contact.contact")
                        ELSE internal_server_error]

----------------------------------------------------------------------------
(* The submitted forms explored.                                           *)

Fields == {"name", "email", "phone", "service_type", "message"}

Blanks(k) == [i \in 1..k |-> " "]

\* core with the same number of blanks, up to MaxPad, on each side.
Padded(cores) ==
    { Blanks(k) \o c \o Blanks(k) : c \in cores, k \in 0..MaxPad }

NameValues == {<<>>, <<" ">>, <<"J">>, <<" ", "J", " ">>}

MessageValues == {<<>>, <<" ">>, <<"r">>, <<" ", "r", " ">>}

PhoneValues == {<<>>, <<" ">>, <<" ", "5", " ">>}

EmailAlphabet == {" ", "@", "."}

EmailValues ==
    UNION { [1..k -> EmailAlphabet] : k \in 0..MaxEmailLen } \cup {<<"b", "a", "d">>}

ServiceValues ==
    Padded(VALID_SERVICE_TYPES \cup {<<>>, <<"x">>, <<"t", "i", "g", "s">>})

\* The spec's scenario {name: "Jo", email: "jo@x.com", service_type: "tig",
\* message: "need a railing"}.
Jo == <<"J", "o">>
JoEmail == <<"j", "o", "@", "x", ".", "c", "o", "m">>
Railing == <<"n", "e", "e", "d", " ", "a", " ", "r", "a", "i", "l", "i", "n", "g">>
JoForm ==
    [name |-> Jo, email |-> JoEmail, service_type |-> <<"t", "i", "g">>,
     message |-> Railing]

\* Arguments for send_quote_email called on its own, unknown slugs included.
DispatchNames == {<<"J">>, Jo}
DispatchEmails == {<<"@", ".">>, JoEmail}
DispatchPhones == {<<"5">>, Lit("not provided")}
DispatchSlugs ==
    VALID_SERVICE_TYPES \cup {Lit("not specified"), <<"x">>, <<"t", "i", "g", "s">>}
DispatchMessages == {<<"r">>, Railing}

\* A field of the submission: present with a value, or absent.
Options(values) ==
    { [present |-> TRUE, value |-> v] : v \in values }
        \cup { [present |-> FALSE, value |-> <<>>] }

MakeForm(n, e, p, s, m) ==
    LET o == [name |-> n, email |-> e, phone |-> p, service_type |-> s, message |-> m]
    IN  [f \in {g \in Fields : o[g].present} |-> o[f].value]

----------------------------------------------------------------------------
(* The state machine: one request per behaviour.                           *)

Init ==
    /\ config \in [MAIL_ENABLED : BOOLEAN,
                   QUOTE_RECIPIENT_EMAIL : {Lit("info@ironforgewelding.com")}]
    /\ catalogs = [VALID_SERVICE_TYPES |-> VALID_SERVICE_TYPES,
                   SERVICE_LABELS |-> SERVICE_LABELS]
    /\ pc = "idle"
    /\ request = [method |-> "none", form |-> EmptyForm]
    /\ is_valid = FALSE
    /\ errors = <<>>
    /\ log = <<>>
    /\ flashes = <<>>
    /\ dispatched = <<>>
    /\ outbox = <<>>
    /\ send_result = "not called"
    /\ raised = "none"
    /\ response = [kind |-> "none"]

\* GET /contact
contact ==
    /\ pc = "idle"
    /\ pc' = "done"
    /\ request' = [method |-> "GET", form |-> EmptyForm]
    /\ log' = <<info(<<"Contact page requested (GET).">>, <<>>)>>
    /\ response' = render_template("contact.html", EmptyForm, 200)
    /\ UNCHANGED <<config, catalogs, is_valid, errors, flashes, dispatched, outbox,
                   send_result, raised>>

\* submit resolving the label with SERVICE_LABELS.setdefault(service_type,
\* service_type): a slug the catalog lacks is added to it.
submit_setdefault(form_data, outcome) ==
    LET validation == validate_contact_form(form_data)
        done == IF ~validation[1]
                THEN validation_failed(form_data, validation[2])
                ELSE validation_passed(form_data, outcome)
        slugs == {done.dispatched[i][4] : i \in DOMAIN done.dispatched}
        added == slugs \ DOMAIN catalogs.SERVICE_LABELS
    IN  /\ pc' = "done"
        /\ request' = [method |-> "POST", form |-> form_data]
        /\ is_valid' = validation[1]
        /\ errors' = validation[2]
        /\ log' = <<info(<<"Contact form submitted (POST).">>, <<>>)>> \o done.log
        /\ flashes' = done.flashes
        /\ dispatched' = done.dispatched
        /\ outbox' = done.outbox
        /\ send_result' = done.send
        /\ raised' = done.raised
        /\ response' = done.response
        /\ catalogs' = [catalogs EXCEPT !.SERVICE_LABELS =
                            [s \in DOMAIN @ \cup added |->
                                IF s \in DOMAIN @ THEN @[s] ELSE s]]
        /\ UNCHANGED config

\* submit whose validator has a side effect: it adds the submitted slug to
\* VALID_SERVICE_TYPES once it has checked it.
submit_remembers_slug(form_data, outcome) ==
    LET validation == validate_contact_form(form_data)
        done == IF ~validation[1]
                THEN validation_failed(form_data, validation[2])
                ELSE validation_passed(form_data, outcome)
    IN  /\ pc' = "done"
        /\ request' = [method |-> "POST", form |-> form_data]
        /\ is_valid' = validation[1]
        /\ errors' = validation[2]
        /\ log' = <<info(<<"Contact form submitted (POST).">>, <<>>)>> \o done.log
        /\ flashes' = done.flashes
        /\ dispatched' = done.dispatched
        /\ outbox' = done.outbox
        /\ send_result' = done.send
        /\ raised' = done.raised
        /\ response' = done.response
        /\ catalogs' = [catalogs EXCEPT !.VALID_SERVICE_TYPES =
                            @ \cup {strip(get(form_data, "service_type", <<>>))}]
        /\ UNCHANGED config

\* POST /contact with the form submitted and what mail.send does if called.
submit(form_data, outcome) ==
    LET validation == validate_contact_form(form_data)
        done == IF ~validation[1]
                THEN validation_failed(form_data, validation[2])
                ELSE validation_passed(form_data, outcome)
    IN  /\ pc' = "done"
        /\ request' = [method |-> "POST", form |-> form_data]
        /\ is_valid' = validation[1]
        /\ errors' = validation[2]
        /\ log' = <<info(<<"Contact form submitted (POST).">>, <<>>)>> \o done.log
        /\ flashes' = done.flashes
        /\ dispatched' = done.dispatched
        /\ outbox' = done.outbox
        /\ send_result' = done.send
        /\ raised' = done.raised
        /\ response' = done.response
        /\ UNCHANGED <<config, catalogs>>

contact_submit ==
    /\ pc = "idle"
    /\ \/ \E n \in Options(NameValues), e \in Options(EmailValues),
             p \in Options(PhoneValues), s \in Options(ServiceValues),
             m \in Options(MessageValues), outcome \in SendOutcomes :
               submit(MakeForm(n, e, p, s, m), outcome)
       \/ \E outcome \in SendOutcomes : submit(JoForm, outcome)

Next == contact \/ contact_submit

Spec == Init /\ [][Next]_vars

\* send_quote_email called on its own, with any arguments.
call_send_quote_email ==
    /\ pc = "idle"
    /\ \E name \in DispatchNames, email \in DispatchEmails, phone \in DispatchPhones,
          service_type \in DispatchSlugs, message_body \in DispatchMessages,
          outcome \in SendOutcomes :
            LET sent == send_quote_email(name, email, phone, service_type,
                                         message_body, outcome)
            IN  /\ pc' = "done"
                /\ dispatched' = <<<<name, email, phone, service_type, message_body>>>>
                /\ log' = sent.log
                /\ outbox' = sent.outbox
                /\ send_result' = sent.send
                /\ raised' = sent.raised
                /\ UNCHANGED <<config, catalogs, request, is_valid, errors, flashes,
                               response>>

DispatchNext == call_send_quote_email

DispatchSpec == Init /\ [][DispatchNext]_vars

----------------------------------------------------------------------------
(* Vocabulary of the properties, stated on the submitted form itself.      *)

\* A POST has been handled.
Posted == pc = "done" /\ request.method = "POST"

\* The submitted value of a field, an absent field counting as empty.
Submitted(field) ==
    IF field \in DOMAIN request.form THEN request.form[field] ELSE <<>>

\* Empty after trimming: nothing but whitespace.
Blank(s) == \A i \in DOMAIN s : s[i] \in Whitespace

Lacks(c, s) == \A i \in DOMAIN s : s[i] # c

\* s between its first and its last non-whitespace character.
Trimmed(s) ==
    LET solid == {i \in DOMAIN s : s[i] \notin Whitespace}
    IN  IF solid = {} THEN <<>>
        ELSE SubSeq(s, CHOOSE i \in solid : \A j \in solid : i <= j,
                       CHOOSE i \in solid : \A j \in solid : i >= j)

Has(msg) == \E i \in DOMAIN errors : errors[i] = msg

Count(msgs) == Cardinality({i \in DOMAIN errors : errors[i] \in msgs})

\* The slugs the spec lets through, the empty one included.
AllowedSlugs == VALID_SERVICE_TYPES \cup {<<>>}

NameViolated == Blank(Submitted("name"))
EmailViolated ==
    \/ Blank(Submitted("email"))
    \/ Lacks("@", Submitted("email"))
    \/ Lacks(".", Submitted("email"))
ServiceViolated == Trimmed(Submitted("service_type")) \notin AllowedSlugs
MessageViolated == Blank(Submitted("message"))

AllFieldsGood ==
    ~NameViolated /\ ~EmailViolated /\ ~ServiceViolated /\ ~MessageViolated

----------------------------------------------------------------------------
(* Properties of the validator.                                            *)

\* C1: a submission whose name, email or message is absent or empty after
\* trimming fails validation, and the errors hold that field's
\* required-field message, whatever the other fields hold.
C1_RequiredFields ==
    Posted =>
        /\ NameViolated => ~is_valid /\ Has(NameRequired)
        /\ Blank(Submitted("email")) => ~is_valid /\ Has(EmailRequired)
        /\ MessageViolated => ~is_valid /\ Has(MessageRequired)

\* C1 witness: name absent, email blank, message empty; all three reported.
C1_Witness ==
    /\ Posted
    /\ "name" \notin DOMAIN request.form
    /\ Submitted("email") = <<" ">>
    /\ "message" \in DOMAIN request.form /\ Submitted("message") = <<>>
    /\ ~is_valid
    /\ Has(NameRequired) /\ Has(EmailRequired) /\ Has(MessageRequired)

\* C2 as stated: every submission whose email lacks "@" or lacks "." fails
\* with the email-format message.
C2_AsStated ==
    Posted /\ (Lacks("@", Submitted("email")) \/ Lacks(".", Submitted("email")))
        => ~is_valid /\ Has(EmailInvalid)

\* C2 amended: every submission whose email is not empty after trimming and
\* lacks "@" or lacks "." fails with the email-format message, whatever the
\* other fields hold; an email empty after trimming gets the required-field
\* message and not the format message.
C2_EmailFormat ==
    Posted =>
        /\ ( /\ ~Blank(Submitted("email"))
             /\ Lacks("@", Submitted("email")) \/ Lacks(".", Submitted("email")) )
           => ~is_valid /\ Has(EmailInvalid)
        /\ Blank(Submitted("email")) => ~Has(EmailInvalid)

\* C2 witness: the email has a "." and no "@", every other field is good, and
\* the format message is the one error.
C2_Witness ==
    /\ Posted
    /\ ~Blank(Submitted("email"))
    /\ Lacks("@", Submitted("email")) /\ ~Lacks(".", Submitted("email"))
    /\ ~NameViolated /\ ~ServiceViolated /\ ~MessageViolated
    /\ errors = <<EmailInvalid>>

\* C3 as stated: every submitted service_type not in the allowed set fails
\* with the invalid-service message, and no value of the set does.
C3_AsStated ==
    Posted =>
        /\ Submitted("service_type") \notin AllowedSlugs
           => ~is_valid /\ Has(ServiceInvalid)
        /\ Submitted("service_type") \in AllowedSlugs => ~Has(ServiceInvalid)

\* C3 amended: every service_type whose value trimmed of whitespace is not in
\* the allowed set fails with the invalid-service message; every value that
\* trimmed is in the set (empty or absent included) adds no such error.
C3_ServiceType ==
    Posted =>
        /\ ServiceViolated => ~is_valid /\ Has(ServiceInvalid)
        /\ ~ServiceViolated => ~Has(ServiceInvalid)

\* C3 witness: a padded unknown slug, everything else good, is the one error.
C3_Witness ==
    /\ Posted
    /\ ServiceViolated
    /\ Submitted("service_type") # Trimmed(Submitted("service_type"))
    /\ ~NameViolated /\ ~EmailViolated /\ ~MessageViolated
    /\ errors = <<ServiceInvalid>>

\* C4: the four rules are applied independently: each violated rule gives
\* exactly one message, a satisfied rule none, nothing else is reported, and
\* is_valid holds exactly when there are no errors.
C4_AllViolationsCollected ==
    Posted =>
        /\ Count({NameRequired}) = (IF NameViolated THEN 1 ELSE 0)
        /\ Count({EmailRequired, EmailInvalid}) = (IF EmailViolated THEN 1 ELSE 0)
        /\ Count({ServiceInvalid}) = (IF ServiceViolated THEN 1 ELSE 0)
        /\ Count({MessageRequired}) = (IF MessageViolated THEN 1 ELSE 0)
        /\ Count({NameRequired, EmailRequired, EmailInvalid, ServiceInvalid,
                  MessageRequired}) = Len(errors)
        /\ is_valid <=> (errors = <<>>)

\* C4 witness: all four rules violated at once, four errors.
C4_Witness ==
    /\ Posted
    /\ NameViolated /\ EmailViolated /\ ServiceViolated /\ MessageViolated
    /\ Len(errors) = 4
    /\ ~is_valid

Rank(msg) ==
    CASE msg = NameRequired -> 1
      [] msg \in {EmailRequired, EmailInvalid} -> 2
      [] msg = ServiceInvalid -> 3
      [] OTHER -> 4

\* The spec's scenario {name: "", email: "bad", message: ""}.
ScenarioBad ==
    /\ DOMAIN request.form = {"name", "email", "message"}
    /\ request.form["name"] = <<>>
    /\ request.form["email"] = <<"b", "a", "d">>
    /\ request.form["message"] = <<>>

\* C5: the errors come in the order name, email, service_type, message for
\* every combination of violated rules; the scenario gives exactly the name,
\* email-format and message errors.
C5_ErrorOrder ==
    Posted =>
        /\ \A i, j \in DOMAIN errors : i < j => Rank(errors[i]) < Rank(errors[j])
        /\ ScenarioBad =>
               ~is_valid /\ errors = <<NameRequired, EmailInvalid, MessageRequired>>

\* C5 witness: service type and message both wrong, reported in that order
\* after the name and email errors.
C5_Witness ==
    /\ Posted
    /\ errors = <<NameRequired, EmailInvalid, ServiceInvalid, MessageRequired>>
    /\ Submitted("email") = <<"b", "a", "d">>

\* C5 witness of the scenario itself.
C5_ScenarioReached == Posted /\ ScenarioBad /\ Len(errors) = 3

----------------------------------------------------------------------------
(* Properties of the dispatcher and of contact_submit.                     *)

\* The log record as the handler formats it.
Render(rec) == Format(rec.msg, rec.args)

\* needle occurs in hay.
Contains(hay, needle) ==
    \E k \in 0..(Len(hay) - Len(needle)) : SubSeq(hay, k + 1, k + Len(needle)) = needle

\* The body composed for the one call of the dispatcher.
ComposedBody ==
    body_text(dispatched[1][1], dispatched[1][2], dispatched[1][3],
              dispatched[1][4], dispatched[1][5])

\* The log records whose text holds the composed body.
BodyRecords == {i \in DOMAIN log : Contains(Render(log[i]), ComposedBody)}

SendFailed == send_result \notin {"not called", "ok"}

\* C6: with MAIL_ENABLED false, a valid submission never reaches mail.send,
\* and the composed body is logged exactly once, at INFO level.
C6_MailDisabledLogsBody ==
    Posted /\ AllFieldsGood /\ ~config.MAIL_ENABLED =>
        /\ Len(dispatched) = 1
        /\ outbox = <<>>
        /\ send_result = "not called"
        /\ Cardinality(BodyRecords) = 1
        /\ \A i \in BodyRecords : log[i].level = "INFO"

\* C6 witness: mail disabled, a valid form with a padded message, the body
\* logged once and nothing sent.
C6_Witness ==
    /\ Posted /\ AllFieldsGood /\ ~config.MAIL_ENABLED
    /\ Submitted("message") = <<" ", "r", " ">>
    /\ Cardinality(BodyRecords) = 1
    /\ outbox = <<>>

\* C7: with MAIL_ENABLED true and mail.send raising, send_quote_email returns
\* normally (no exception escapes) and logs a failure record.
C7_SendFailureContained ==
    Posted /\ AllFieldsGood /\ config.MAIL_ENABLED /\ SendFailed =>
        /\ raised = "none"
        /\ \E i \in DOMAIN log : log[i].level = "ERROR" /\ log[i].exc_info = send_result

\* C7 witness: mail.send was called and raised ConnectionRefusedError, which
\* did not escape.
C7_Witness ==
    /\ Posted /\ AllFieldsGood /\ config.MAIL_ENABLED
    /\ Len(outbox) = 1
    /\ send_result = "ConnectionRefusedError"
    /\ raised = "none"
    /\ log[Len(log)].level = "ERROR"

\* C8: on a transport failure the failure record of the log holds the
\* composed body, the customer's message with it, and the exception context.
C8_FailureLogHasBody ==
    Posted /\ AllFieldsGood /\ config.MAIL_ENABLED /\ SendFailed =>
        \E i \in DOMAIN log :
            /\ log[i].exc_info = send_result
            /\ Contains(Render(log[i]), ComposedBody)

\* C9: once validation passes the outcome is success, whether mail is
\* disabled, delivered or failed: the dispatcher was attempted, nothing
\* escaped, the one flash is the success message and the response is the
\* redirect to the contact page.
C9_ValidAlwaysSucceeds ==
    Posted /\ AllFieldsGood =>
        /\ is_valid
        /\ Len(dispatched) = 1
        /\ raised = "none"
        /\ Len(flashes) = 1
        /\ flashes[1].category = "success"
        /\ Contains(flashes[1].message, Trimmed(Submitted("name")))
        /\ response = [kind |-> "redirect", endpoint |-> "contact.contact",
                       status |-> 302]

\* C9 witness: the transport failed, and the user was still redirected with
\* the success flash.
C9_Witness ==
    /\ Posted /\ AllFieldsGood
    /\ SendFailed
    /\ response.kind = "redirect"
    /\ flashes[1].category = "success"

\* C10: a submission that fails validation gets the form again with status
\* 400 and its own input, one error flash per validation error in order, and
\* the dispatcher is not called: nothing sent, nothing but the validation
\* warnings logged, no success flash.
C10_InvalidRedisplaysForm ==
    Posted /\ ~AllFieldsGood =>
        /\ ~is_valid /\ errors # <<>>
        /\ response = [kind |-> "render", template |-> "contact.html",
                       form_data |-> request.form, status |-> 400]
        /\ flashes = [i \in DOMAIN errors |->
                         [message |-> errors[i], category |-> "error"]]
        /\ dispatched = <<>>
        /\ outbox = <<>>
        /\ send_result = "not called"
        /\ Len(log) = 1 + Len(errors)
        /\ \A i \in 2..Len(log) : log[i].level = "WARNING"

\* C10 witness: two rules violated on a form that has all five fields.
C10_Witness ==
    /\ Posted
    /\ DOMAIN request.form = Fields
    /\ Len(errors) = 2
    /\ response.status = 400
    /\ Len(flashes) = 2

----------------------------------------------------------------------------
(* Properties of the catalogs and of the composed notification.            *)

C12_CatalogsCoveredAndReadOnly ==
    /\ catalogs.VALID_SERVICE_TYPES \subseteq DOMAIN catalogs.SERVICE_LABELS
    /\ catalogs.VALID_SERVICE_TYPES = VALID_SERVICE_TYPES
    /\ catalogs.SERVICE_LABELS = SERVICE_LABELS

\* C12 witness: a valid submission without a service type went through the
\* validator and the dispatcher, which looked up "not specified".
C12_Witness ==
    /\ Posted /\ AllFieldsGood
    /\ Len(dispatched) = 1
    /\ dispatched[1][4] = Lit("not specified")
    /\ dispatched[1][4] \notin DOMAIN catalogs.SERVICE_LABELS

\* send_quote_email has been called and is over.
Dispatched == pc = "done" /\ Len(dispatched) = 1

\* The body the call produced: the one handed to mail.send, or with mail
\* disabled the one in its log record.
TheBody ==
    IF config.MAIL_ENABLED THEN outbox[1].body ELSE log[Len(log)].args[1]

\* The label the spec gives a slug: the catalog's, or the slug itself.
LabelOf(slug) ==
    IF slug \in DOMAIN SERVICE_LABELS THEN SERVICE_LABELS[slug] ELSE slug

\* C13: the Service line of the body carries the catalog's label of the
\* slug, and the slug itself for a slug the catalog lacks ("not specified"
\* among them); the call does not fail.
C13_LabelFallback ==
    Dispatched =>
        /\ raised = "none"
        /\ Contains(TheBody,
                    <<"\n", "Service: ">> \o LabelOf(dispatched[1][4]) \o <<"\n">>)

\* C13 witness: the unknown slug "tigs" reached the dispatcher and is printed
\* as it is.
C13_Witness ==
    /\ Dispatched
    /\ dispatched[1][4] = <<"t", "i", "g", "s">>
    /\ Contains(TheBody, <<"Service: ", "t", "i", "g", "s", "\n">>)

\* What contact_submit is to pass for the phone and the service type.
PhoneOrDefault ==
    IF Blank(Submitted("phone")) THEN Lit("not provided")
    ELSE Trimmed(Submitted("phone"))

SlugOrDefault ==
    IF Blank(Submitted("service_type")) THEN Lit("not specified")
    ELSE Trimmed(Submitted("service_type"))

\* The body as the spec lists its parts.
BodyAsListed(name, email, phone, label, message) ==
    <<"New quote request from the Ironforge Welding website.", "\n",
      "\n",
      "--- Customer Details ---", "\n",
      "Name:    ">> \o name \o <<"\n",
      "Email:   ">> \o email \o <<"\n",
      "Phone:   ">> \o phone \o <<"\n",
      "Service: ">> \o label \o <<"\n",
      "\n",
      "--- Project Description ---", "\n">> \o message \o <<"\n",
      "\n",
      "Reply directly to this email to respond to the customer.">>

\* The same with a "---" line before the closing instruction.
BodyWithRule(name, email, phone, label, message) ==
    <<"New quote request from the Ironforge Welding website.", "\n",
      "\n",
      "--- Customer Details ---", "\n",
      "Name:    ">> \o name \o <<"\n",
      "Email:   ">> \o email \o <<"\n",
      "Phone:   ">> \o phone \o <<"\n",
      "Service: ">> \o label \o <<"\n",
      "\n",
      "--- Project Description ---", "\n">> \o message \o <<"\n",
      "\n",
      "---", "\n",
      "Reply directly to this email to respond to the customer.">>

ScenarioJo == request.form = JoForm

\* The four texts the scenario's body is to contain.
ScenarioJoTexts ==
    /\ Contains(TheBody, <<"\n", "Name:    ", "J", "o", "\n">>)
    /\ Contains(TheBody, <<"\n", "Email:   ">> \o JoEmail \o <<"\n">>)
    /\ Contains(TheBody, <<"\n", "Service: ", "TIG Welding", "\n">>)
    /\ Contains(TheBody, <<"\n">> \o Railing \o <<"\n">>)

\* C14 as stated: the body is the header, a blank line, the Customer Details
\* block, a blank line, the Project Description block, a blank line and the
\* closing instruction, and nothing else.
C14_AsStated ==
    Posted /\ AllFieldsGood =>
        /\ TheBody = BodyAsListed(Trimmed(Submitted("name")), Trimmed(Submitted("email")),
                                  PhoneOrDefault, LabelOf(SlugOrDefault),
                                  Trimmed(Submitted("message")))
        /\ ScenarioJo => ScenarioJoTexts

\* C14 amended: the same parts, with a line "---" between the last blank
\* line and the closing instruction.
C14_BodyFormat ==
    Posted /\ AllFieldsGood =>
        /\ TheBody = BodyWithRule(Trimmed(Submitted("name")), Trimmed(Submitted("email")),
                                  PhoneOrDefault, LabelOf(SlugOrDefault),
                                  Trimmed(Submitted("message")))
        /\ ScenarioJo => ScenarioJoTexts

\* C14 witness: the scenario with mail disabled, its body in the log.
C14_Witness ==
    /\ Posted /\ ScenarioJo /\ AllFieldsGood
    /\ ~config.MAIL_ENABLED
    /\ ScenarioJoTexts
    /\ Contains(Render(log[Len(log)]), TheBody)

\* C15: with MAIL_ENABLED true the one message handed to mail.send goes to
\* the configured recipient only, has the customer's name in its subject,
\* the composed body as its body and the submitted email as reply-to.
C15_OutboundMessage ==
    Posted /\ AllFieldsGood /\ config.MAIL_ENABLED =>
        /\ Len(outbox) = 1
        /\ outbox[1].recipients = <<config.QUOTE_RECIPIENT_EMAIL>>
        /\ Contains(outbox[1].subject, Trimmed(Submitted("name")))
        /\ outbox[1].body = BodyWithRule(Trimmed(Submitted("name")),
                                         Trimmed(Submitted("email")),
                                         PhoneOrDefault, LabelOf(SlugOrDefault),
                                         Trimmed(Submitted("message")))
        /\ outbox[1].reply_to = Trimmed(Submitted("email"))

\* C15 witness: the scenario's message was sent, reply-to jo@x.com.
C15_Witness ==
    /\ Posted /\ ScenarioJo /\ config.MAIL_ENABLED
    /\ send_result = "ok"
    /\ Len(outbox) = 1
    /\ outbox[1].reply_to = JoEmail
    /\ outbox[1].subject = <<"New Quote Request from ", "J", "o">>

\* C16: handling one POST calls mail.send at most once, and exactly once
\* when and only when validation passed and MAIL_ENABLED is true, whether the
\* send succeeds or raises.
C16_SentAtMostOnce ==
    Posted =>
        /\ Len(outbox) <= 1
        /\ Len(outbox) = 1 <=> (AllFieldsGood /\ config.MAIL_ENABLED)
        /\ send_result # "not called" <=> Len(outbox) = 1

\* C16 witness: the one send raised and was not repeated.
C16_Witness ==
    /\ Posted /\ AllFieldsGood /\ config.MAIL_ENABLED
    /\ send_result = "SMTPException"
    /\ Len(outbox) = 1

\* C17: for a valid submission the dispatcher gets the trimmed name, email
\* and message, the trimmed phone or "not provided", and the trimmed slug or
\* "not specified".
C17_DispatcherArguments ==
    Posted /\ AllFieldsGood =>
        dispatched = << << Trimmed(Submitted("name")),
                           Trimmed(Submitted("email")),
                           PhoneOrDefault,
                           SlugOrDefault,
                           Trimmed(Submitted("message")) >> >>

\* C17 witness: a blank phone became "not provided" and the padded slug
\* " tig " was passed as "tig".
C17_Witness ==
    /\ Posted /\ AllFieldsGood
    /\ Submitted("phone") = <<" ">>
    /\ Submitted("service_type") = <<" ", "t", "i", "g", " ">>
    /\ dispatched[1][3] = Lit("not provided")
    /\ dispatched[1][4] = <<"t", "i", "g">>

\* C17 second witness: no service type, "not specified" passed, and a padded
\* phone passed trimmed.
C17_DefaultSlugReached ==
    /\ Posted /\ AllFieldsGood
    /\ "service_type" \notin DOMAIN request.form
    /\ Submitted("phone") = <<" ", "5", " ">>
    /\ dispatched[1][3] = <<"5">>
    /\ dispatched[1][4] = Lit("not specified")

====
